---- MODULE Spec2Model ----
(***************************************************************************)
(* Model of the reveal engine of visual-guess-challenge:                   *)
(*   GameEngine      (src/game_engine.py)                                  *)
(*   ImageProcessor  (src/image_processor.py)                              *)
(*                                                                         *)
(* Python strings are sequences of one-character strings.  Python floats   *)
(* are exact rationals [n, d] in lowest terms with d > 0 (every comparison *)
(* the code makes on them is between values whose floating-point rounding  *)
(* does not change the outcome: see the notes at Rat and crop).            *)
(* An image is the record of what it shows: its pixel dimensions, the      *)
(* region of the decoded file it shows, and the Gaussian blurs applied.    *)
(* A JSON value decoded by json.load is a record [t, s, n, items].         *)
(***************************************************************************)
EXTENDS Integers, Sequences, FiniteSets, TLC

VARIABLES
    pc,                  \* "new" before __init__, "active" after, "failed" if __init__ raised
    image_path,          \* self.image_path
    mode,                \* self.mode
    time_limit,          \* self.time_limit
    original_image,      \* self.original_image
    correct_answer_key,  \* self.correct_answer_key
    synonyms,            \* self.synonyms
    valid_rects,         \* the valid_rects list of the last crop_to_main_subject
    crop_rect,           \* (new_x1, new_y1, new_x2, new_y2) of the last crop_to_main_subject
    ret                  \* the last call and what it returned or raised

vars == <<pc, image_path, mode, time_limit, original_image, correct_answer_key,
          synonyms, valid_rects, crop_rect, ret>>

session == <<image_path, mode, time_limit, original_image, correct_answer_key, synonyms>>

(***************************************************************************)
(* Bounds of the model.                                                    *)
(***************************************************************************)
MaxLen == 2        \* longest text passed to set_answer / check_answer
MaxContours == 2   \* most contours findContours reports
MaxTime == 8       \* largest time_limit; elapsed ranges a little beyond it on both sides
MaxLevel == 6      \* largest current_level handed to ImageProcessor directly

(***************************************************************************)
(* Python str                                                              *)
(***************************************************************************)
Upper == <<"A", "B", "C", "D", "E", "F", "G", "H", "I", "J", "K", "L", "M",
           "N", "O", "P", "Q", "R", "S", "T", "U", "V", "W", "X", "Y", "Z">>
Lower == <<"a", "b", "c", "d", "e", "f", "g", "h", "i", "j", "k", "l", "m",
           "n", "o", "p", "q", "r", "s", "t", "u", "v", "w", "x", "y", "z">>
Whitespace == {" ", "\t", "\n", "\r"}

\* str.lower() on one character
lower_char(c) ==
    IF \E i \in 1..Len(Upper) : Upper[i] = c
    THEN Lower[CHOOSE i \in 1..Len(Upper) : Upper[i] = c]
    ELSE c

\* str.lower()
lower(s) == [i \in 1..Len(s) |-> lower_char(s[i])]

\* str.strip(): drop leading and trailing whitespace
strip(s) ==
    LET keep == {i \in 1..Len(s) : s[i] \notin Whitespace}
    IN  IF keep = {} THEN <<>>
        ELSE LET lo == CHOOSE i \in keep : \A j \in keep : i <= j
                 hi == CHOOSE i \in keep : \A j \in keep : i >= j
             IN  SubSeq(s, lo, hi)

\* str.rfind(c) + 1: the 1-based index of the last c in s, 0 when there is none
rfind(s, c) ==
    LET at == {i \in 1..Len(s) : s[i] = c}
    IN  IF at = {} THEN 0 ELSE CHOOSE i \in at : \A j \in at : i >= j

\* s.split(sep)[0]: the part of s before the first sep
split_first(s, sep) ==
    LET at == {i \in 1..Len(s) : s[i] = sep}
    IN  IF at = {} THEN s
        ELSE SubSeq(s, 1, (CHOOSE i \in at : \A j \in at : i <= j) - 1)

\* needle in haystack, for two str
is_substring(needle, hay) ==
    \E i \in 1..(Len(hay) - Len(needle) + 1) :
        SubSeq(hay, i, i + Len(needle) - 1) = needle

\* os.path.basename
basename(p) == SubSeq(p, rfind(p, "/") + 1, Len(p))

\* os.path.splitext(name)[0], for a name without directory part
splitext_root(name) ==
    LET dot == rfind(name, ".")
    IN  IF dot > 0 /\ \E i \in 1..(dot - 1) : name[i] # "."
        THEN SubSeq(name, 1, dot - 1)
        ELSE name

(***************************************************************************)
(* Python float, as an exact rational                                      *)
(***************************************************************************)
Abs(i) == IF i < 0 THEN -i ELSE i

RECURSIVE Gcd(_, _)
Gcd(a, b) == IF b = 0 THEN a ELSE Gcd(b, a % b)

\* n / d for d # 0, in lowest terms with a positive denominator
Rat(n, d) ==
    LET g == Gcd(Abs(n), Abs(d))
        sgn == IF d < 0 THEN -1 ELSE 1
    IN  [n |-> sgn * (n \div g), d |-> sgn * (d \div g)]

RInt(i) == [n |-> i, d |-> 1]
RLe(a, b) == a.n * b.d <= b.n * a.d
RLt(a, b) == a.n * b.d < b.n * a.d
RSub(a, b) == Rat(a.n * b.d - b.n * a.d, a.d * b.d)
RMul(a, b) == Rat(a.n * b.n, a.d * b.d)
RMax(a, b) == IF RLt(a, b) THEN b ELSE a     \* max(a, b): the first of equal arguments
RMin(a, b) == IF RLt(b, a) THEN b ELSE a     \* min(a, b)

Min2(a, b) == IF b < a THEN b ELSE a
Max2(a, b) == IF b > a THEN b ELSE a

(***************************************************************************)
(* Values: JSON as json.load decodes it, images, results of calls          *)
(***************************************************************************)
JStr(s) == [t |-> "str", s |-> s, n |-> 0, items |-> <<>>]
JInt(n) == [t |-> "int", s |-> <<>>, n |-> n, items |-> <<>>]
JNull == [t |-> "null", s |-> <<>>, n |-> 0, items |-> <<>>]
JList(items) == [t |-> "list", s |-> <<>>, n |-> 0, items |-> items]
\* a dict: items is the sequence of its [k, v] entries, keys distinct
JDict(items) == [t |-> "dict", s |-> <<>>, n |-> 0, items |-> items]

\* the image cv2.imread decodes from a w x h file, and None
Image(w, h) == [isNone |-> FALSE, w |-> w, h |-> h,
                rx |-> 0, ry |-> 0, rw |-> w, rh |-> h, blur |-> <<>>]
NoImage == [isNone |-> TRUE, w |-> 0, h |-> 0,
            rx |-> 0, ry |-> 0, rw |-> 0, rh |-> 0, blur |-> <<>>]

Ok(v) == [err |-> "", val |-> v]
Raise(e) == [err |-> e, val |-> 0]

Digits == <<"0", "1", "2", "3", "4", "5", "6", "7", "8", "9">>

RECURSIVE int_str(_)
int_str(n) ==
    IF n < 0 THEN <<"-">> \o int_str(-n)
    ELSE IF n < 10 THEN <<Digits[n + 1]>>
    ELSE int_str(n \div 10) \o <<Digits[(n % 10) + 1]>>

\* str(x) for a JSON scalar
py_str(x) ==
    CASE x.t = "str" -> x.s
      [] x.t = "int" -> int_str(x.n)
      [] OTHER -> <<"N", "o", "n", "e">>

\* key in container
py_contains(c, key) ==
    CASE c.t = "dict" -> Ok(\E i \in 1..Len(c.items) : c.items[i].k = key)
      [] c.t = "list" -> Ok(\E i \in 1..Len(c.items) :
                               c.items[i].t = "str" /\ c.items[i].s = key)
      [] c.t = "str" -> Ok(is_substring(key, c.s))
      [] OTHER -> Raise("TypeError")

\* container[key] for a str key that is in the container
py_getitem(c, key) ==
    IF c.t = "dict"
    THEN Ok(c.items[CHOOSE i \in 1..Len(c.items) : c.items[i].k = key].v)
    ELSE Raise("TypeError")

\* the elements a for loop over v visits
py_iter(v) ==
    CASE v.t = "list" -> Ok(v.items)
      [] v.t = "str" -> Ok([i \in 1..Len(v.s) |-> JStr(<<v.s[i]>>)])
      [] v.t = "dict" -> Ok([i \in 1..Len(v.items) |-> JStr(v.items[i].k)])
      [] OTHER -> Raise("TypeError")

\* len(v)
py_len(v) ==
    CASE v.t = "list" -> Ok(Len(v.items))
      [] v.t = "str" -> Ok(Len(v.s))
      [] v.t = "dict" -> Ok(Len(v.items))
      [] OTHER -> Raise("TypeError")

\* v[1] for a v with len(v) > 1
py_second(v) ==
    CASE v.t = "list" -> Ok(v.items[2])
      [] v.t = "str" -> Ok(JStr(<<v.s[2]>>))
      [] v.t = "dict" -> Raise("KeyError")
      [] OTHER -> Raise("TypeError")

(***************************************************************************)
(* ImageProcessor                                                          *)
(***************************************************************************)
sigma_values == <<15, 8, 4, 2, 0>>
zoom_ratios == <<Rat(1, 8), Rat(1, 4), Rat(1, 2), Rat(3, 4), RInt(1)>>

apply_blur(image, current_level, max_level) ==
    IF image.isNone THEN Ok(NoImage)
    ELSE LET sigma == IF current_level <= Len(sigma_values)
                      THEN sigma_values[current_level] ELSE 0
             k == 6 * sigma + 1
             kernel_size == IF k % 2 = 0 THEN k + 1 ELSE k
         IN  IF sigma = 0 THEN Ok(image)
             ELSE Ok([image EXCEPT !.blur =
                         Append(@, [sigma |-> sigma, kernel_size |-> kernel_size])])

apply_zoom(image, current_level, max_level) ==
    IF image.isNone THEN Ok(NoImage)
    ELSE LET height == image.h
             width == image.w
             ratio == IF current_level <= Len(zoom_ratios)
                      THEN zoom_ratios[current_level] ELSE RInt(1)
             crop_width == (width * ratio.n) \div ratio.d
             crop_height == (height * ratio.n) \div ratio.d
             start_x == (width - crop_width) \div 2
             start_y == (height - crop_height) \div 2
         IN  \* cv2.resize refuses an empty source
             IF crop_width = 0 \/ crop_height = 0 THEN Raise("cv2.error")
             ELSE Ok([image EXCEPT !.rx = @ + start_x, !.ry = @ + start_y,
                                   !.rw = crop_width, !.rh = crop_height])

apply_hybrid(image, current_level, max_level) ==
    IF image.isNone THEN Ok(NoImage)
    ELSE LET zoomed == apply_zoom(image, current_level, max_level)
             blur_level == Max2(1, current_level - 2)
         IN  IF zoomed.err # "" THEN zoomed
             ELSE apply_blur(zoomed.val, blur_level, max_level)

\* Binding a call's positional arguments to (image, current_level, max_level):
\* a call with another number of arguments raises TypeError.
call_apply_blur(args) ==
    IF Len(args) # 3 THEN Raise("TypeError") ELSE apply_blur(args[1], args[2], args[3])
call_apply_zoom(args) ==
    IF Len(args) # 3 THEN Raise("TypeError") ELSE apply_zoom(args[1], args[2], args[3])
call_apply_hybrid(args) ==
    IF Len(args) # 3 THEN Raise("TypeError") ELSE apply_hybrid(args[1], args[2], args[3])

(***************************************************************************)
(* GameEngine: construction                                                *)
(***************************************************************************)
EmptyDict == JDict(<<>>)

\* load_synonyms: file is the synonyms.json beside the module,
\* [exists, decodes, value]
load_synonyms(file) ==
    IF file.exists
    THEN IF file.decodes THEN file.value ELSE EmptyDict
    ELSE EmptyDict

\* extract_answer_from_filename
extract_answer_from_filename(path) ==
    LET filename == basename(path)
        name_without_ext == splitext_root(filename)
    IN  lower(split_first(split_first(name_without_ext, "_"), "-"))

\* load_image: file is the file at image_path, [exists, decodes, w, h]
load_image(file) ==
    IF file.exists
    THEN IF ~file.decodes THEN Raise("ValueError") ELSE Ok(Image(file.w, file.h))
    ELSE Raise("FileNotFoundError")

MinCropSide == 50

\* the size check of line 136: the union is more than 90% of both sides
covers_background(detect_w, detect_h, w, h) ==
    detect_w * 10 > w * 9 /\ detect_h * 10 > h * 9

\* a narrower padding, int(detect * 0.05)
padding_narrow(detect) == (detect * 5) \div 100

\* the padding of lines 141-142: int(detect * 0.15)
padding(detect) == (detect * 15) \div 100

\* a size check that only asks for a non-empty crop
crop_accepted_nonempty(cw, ch) == cw * ch > 0

\* the size check of lines 153-157
crop_accepted(cw, ch) ==
    cw * ch > 0 /\ ch > MinCropSide /\ cw > MinCropSide

\* crop_to_main_subject: contours is the list of boundingRect(contour) = <<x, y, cw, ch>>
\* over the contours findContours reports.  The result is the new
\* self.original_image with the locals valid_rects and (new_x1, new_y1, new_x2, new_y2).
crop_to_main_subject(image, contours) ==
    LET unchanged == [image |-> image, valid_rects |-> {}, crop_rect |-> <<>>]
    IN
    IF image.isNone THEN unchanged
    ELSE IF contours = <<>> THEN unchanged
    ELSE
    LET h == image.h
        w == image.w
        image_area == w * h
        \* area > image_area * 0.005
        valid == {<<r[1], r[2], r[1] + r[3], r[2] + r[4]>> :
                     r \in {contours[i] : i \in {j \in 1..Len(contours) :
                            contours[j][3] * contours[j][4] * 1000 > image_area * 5}}}
    IN
    IF valid = {} THEN unchanged
    ELSE
    LET min_x == CHOOSE v \in {r[1] : r \in valid} : \A r \in valid : v <= r[1]
        min_y == CHOOSE v \in {r[2] : r \in valid} : \A r \in valid : v <= r[2]
        max_x == CHOOSE v \in {r[3] : r \in valid} : \A r \in valid : v >= r[3]
        max_y == CHOOSE v \in {r[4] : r \in valid} : \A r \in valid : v >= r[4]
        detect_w == max_x - min_x
        detect_h == max_y - min_y
    IN
    IF covers_background(detect_w, detect_h, w, h)
    THEN [unchanged EXCEPT !.valid_rects = valid]
    ELSE
    LET pad_x == padding(detect_w)
        pad_y == padding(detect_h)
        new_x1 == Max2(0, min_x - pad_x)
        new_y1 == Max2(0, min_y - pad_y)
        new_x2 == Min2(w, max_x + pad_x)
        new_y2 == Min2(h, max_y + pad_y)
        cw == new_x2 - new_x1
        ch == new_y2 - new_y1
        cropped_img == [image EXCEPT !.w = cw, !.h = ch,
                                     !.rx = @ + new_x1, !.ry = @ + new_y1,
                                     !.rw = cw, !.rh = ch]
    IN  [image |-> IF crop_accepted(cw, ch) THEN cropped_img ELSE image,
         valid_rects |-> valid,
         crop_rect |-> <<new_x1, new_y1, new_x2, new_y2>>]

NoCall == [op |-> "", arg |-> <<>>, err |-> "", val |-> 0]
Call(op, arg, r) == [op |-> op, arg |-> arg, err |-> r.err, val |-> r.val]

Init ==
    /\ pc = "new"
    /\ image_path = <<>>
    /\ mode = ""
    /\ time_limit = 0
    /\ original_image = NoImage
    /\ correct_answer_key = <<>>
    /\ synonyms = EmptyDict
    /\ valid_rects = {}
    /\ crop_rect = <<>>
    /\ ret = NoCall

\* __init__(image_path, mode, time_limit), in an environment where synonyms.json is
\* dict_file, the file at image_path is image_file and the contours found are contours;
\* ret.arg keeps the image load_image decoded
Construct(path, m, limit, dict_file, image_file, contours) ==
    /\ pc = "new"
    /\ image_path' = path
    /\ mode' = m
    /\ time_limit' = limit
    /\ synonyms' = load_synonyms(dict_file)
    /\ correct_answer_key' = extract_answer_from_filename(path)
    /\ LET loaded == load_image(image_file)
       IN  IF loaded.err # ""
           THEN /\ pc' = "failed"
                /\ original_image' = NoImage
                /\ valid_rects' = {}
                /\ crop_rect' = <<>>
                /\ ret' = Call("__init__", NoImage, loaded)
           ELSE LET c == crop_to_main_subject(loaded.val, contours)
                IN  /\ pc' = "active"
                    /\ original_image' = c.image
                    /\ valid_rects' = c.valid_rects
                    /\ crop_rect' = c.crop_rect
                    /\ ret' = Call("__init__", loaded.val, Ok(0))

(***************************************************************************)
(* GameEngine: the operations of a constructed session                     *)
(***************************************************************************)
\* set_answer
set_answer(answer) == lower(answer)

\* the progress of get_processed_image, lines 172-176
progress_of(elapsed_time, limit) ==
    LET progress == IF limit > 0 THEN Rat(elapsed_time, limit) ELSE RInt(1)
    IN  RMax(RInt(0), RMin(RInt(1), progress))

\* get_processed_image
get_processed_image(image, m, limit, elapsed_time) ==
    IF image.isNone THEN Ok(NoImage)
    ELSE LET progress == progress_of(elapsed_time, limit)
         IN  CASE m = "blur" -> call_apply_blur(<<image, progress>>)
               [] m = "zoom" -> call_apply_zoom(<<image, progress>>)
               [] m = "hybrid" -> call_apply_hybrid(<<image, progress>>)
               [] OTHER -> Ok(image)

\* the display answer of lines 210 and 231-234
display_answer_of(key, syn) ==
    LET present == py_contains(syn, key)
    IN  IF present.err # "" THEN present
        ELSE IF ~present.val THEN Ok(JStr(key))
        ELSE LET entry == py_getitem(syn, key)
             IN  IF entry.err # "" THEN entry
                 ELSE LET n == py_len(entry.val)
                      IN  IF n.err # "" THEN n
                          ELSE IF n.val > 1 THEN py_second(entry.val)
                          ELSE Ok(JStr(key))

\* matching by containment: some accepted answer occurs inside the guess
is_member_containing(user_answer_norm, valid_answers) ==
    \E v \in valid_answers : is_substring(v, user_answer_norm)

\* the membership test of line 204
is_member(user_answer_norm, valid_answers) == user_answer_norm \in valid_answers

\* check_answer
check_answer(key, syn, user_answer) ==
    LET user_answer_norm == lower(strip(user_answer))
        present == py_contains(syn, key)
    IN  IF present.err # "" THEN present
        ELSE
        LET entry == IF present.val THEN py_getitem(syn, key) ELSE Ok(JList(<<>>))
        IN  IF entry.err # "" THEN entry
            ELSE
            LET listed == py_iter(entry.val)
            IN  IF listed.err # "" THEN listed
                ELSE
                LET valid_answers ==
                        {key} \cup {lower(strip(py_str(listed.val[i]))) :
                                       i \in 1..Len(listed.val)}
                    is_correct == is_member(user_answer_norm, valid_answers)
                    display_answer == display_answer_of(key, syn)
                IN  IF display_answer.err # "" THEN display_answer
                    ELSE Ok([is_correct |-> is_correct,
                             display_answer |-> display_answer.val])

\* a score that counts the elapsed share instead of the remaining one
calculate_score_elapsed(limit, elapsed_seconds) ==
    IF elapsed_seconds >= limit THEN RInt(0)
    ELSE IF limit <= 0 THEN RInt(0)
    ELSE RMax(RInt(0), RMul(RInt(100), Rat(elapsed_seconds, limit)))

\* calculate_score
calculate_score(limit, elapsed_seconds) ==
    IF elapsed_seconds >= limit THEN RInt(0)
    ELSE IF limit <= 0 THEN RInt(0)
    ELSE LET ratio_remaining == RSub(RInt(1), Rat(elapsed_seconds, limit))
             score == RMul(RInt(100), ratio_remaining)
         IN  RMax(RInt(0), score)

\* get_mode
get_mode(m) == m

\* get_correct_answer
get_correct_answer(key, syn) == display_answer_of(key, syn)

SetAnswer(answer) ==
    /\ pc = "active"
    /\ correct_answer_key' = set_answer(answer)
    /\ ret' = Call("set_answer", answer, Ok(0))
    /\ UNCHANGED <<pc, image_path, mode, time_limit, original_image, synonyms,
                   valid_rects, crop_rect>>

GetProcessedImage(elapsed_time) ==
    /\ pc = "active"
    /\ ret' = Call("get_processed_image", elapsed_time,
                   get_processed_image(original_image, mode, time_limit, elapsed_time))
    /\ UNCHANGED <<pc, session, valid_rects, crop_rect>>

\* a check_answer that stores the trimmed key back into the session
CheckAnswerStoringKey(user_answer) ==
    /\ pc = "active"
    /\ ret' = Call("check_answer", user_answer,
                   check_answer(strip(correct_answer_key), synonyms, user_answer))
    /\ correct_answer_key' = strip(correct_answer_key)
    /\ UNCHANGED <<pc, image_path, mode, time_limit, original_image, synonyms,
                   valid_rects, crop_rect>>

CheckAnswer(user_answer) ==
    /\ pc = "active"
    /\ ret' = Call("check_answer", user_answer,
                   check_answer(correct_answer_key, synonyms, user_answer))
    /\ UNCHANGED <<pc, session, valid_rects, crop_rect>>

CalculateScore(elapsed_seconds) ==
    /\ pc = "active"
    /\ ret' = Call("calculate_score", elapsed_seconds,
                   Ok(calculate_score(time_limit, elapsed_seconds)))
    /\ UNCHANGED <<pc, session, valid_rects, crop_rect>>

GetMode ==
    /\ pc = "active"
    /\ ret' = Call("get_mode", <<>>, Ok(get_mode(mode)))
    /\ UNCHANGED <<pc, session, valid_rects, crop_rect>>

GetCorrectAnswer ==
    /\ pc = "active"
    /\ ret' = Call("get_correct_answer", <<>>,
                   get_correct_answer(correct_answer_key, synonyms))
    /\ UNCHANGED <<pc, session, valid_rects, crop_rect>>

\* image_processor.apply_blur / apply_zoom / apply_hybrid called on the session's image
\* with a level, as their signatures ask
ApplyBlur(current_level, max_level) ==
    /\ pc = "active"
    /\ ret' = Call("apply_blur", current_level,
                   call_apply_blur(<<original_image, current_level, max_level>>))
    /\ UNCHANGED <<pc, session, valid_rects, crop_rect>>

ApplyZoom(current_level, max_level) ==
    /\ pc = "active"
    /\ ret' = Call("apply_zoom", current_level,
                   call_apply_zoom(<<original_image, current_level, max_level>>))
    /\ UNCHANGED <<pc, session, valid_rects, crop_rect>>

ApplyHybrid(current_level, max_level) ==
    /\ pc = "active"
    /\ ret' = Call("apply_hybrid", current_level,
                   call_apply_hybrid(<<original_image, current_level, max_level>>))
    /\ UNCHANGED <<pc, session, valid_rects, crop_rect>>

(***************************************************************************)
(* The inputs the model draws from                                         *)
(***************************************************************************)
TextAlphabet == {"a", "A", " "}

\* every text of at most MaxLen characters
Texts == UNION {[1..n -> TextAlphabet] : n \in 0..MaxLen}

\* "img/a_1.jpg", "A-2.png", "img/ A.jpg", "img/Aa.jpg"
Paths == {<<"i", "m", "g", "/", "a", "_", "1", ".", "j", "p", "g">>,
          <<"A", "-", "2", ".", "p", "n", "g">>,
          <<"i", "m", "g", "/", " ", "A", ".", "j", "p", "g">>,
          <<"i", "m", "g", "/", "A", "a", ".", "j", "p", "g">>}

Modes == {"blur", "zoom", "hybrid", "mosaic"}
TimeLimits == (0 - 1)..MaxTime
ElapsedTimes == (0 - 2)..(MaxTime + 2)
Levels == 1..MaxLevel

Decoded(v) == [exists |-> TRUE, decodes |-> TRUE, value |-> v]
Entry(k, v) == [k |-> k, v |-> v]

\* synonyms.json: absent; not JSON; {}; {"a": ["a", "Aa "]}; {"a": ["a"]};
\* {"aa": [" A", 5], "a": []}; null; ["a"]; "aa"; 5; {"a": 5}; {"a": "Aa"};
\* {"a": {"x": 1, "y": 2}}
DictFiles ==
    << [exists |-> FALSE, decodes |-> FALSE, value |-> JNull],
       [exists |-> TRUE, decodes |-> FALSE, value |-> JNull],
       Decoded(EmptyDict),
       Decoded(JDict(<<Entry(<<"a">>, JList(<<JStr(<<"a">>), JStr(<<"A", "a", " ">>)>>))>>)),
       Decoded(JDict(<<Entry(<<"a">>, JList(<<JStr(<<"a">>)>>))>>)),
       Decoded(JDict(<<Entry(<<"a", "a">>, JList(<<JStr(<<" ", "A">>), JInt(5)>>)),
                       Entry(<<"a">>, JList(<<>>))>>)),
       Decoded(JNull),
       Decoded(JList(<<JStr(<<"a">>)>>)),
       Decoded(JStr(<<"a", "a">>)),
       Decoded(JInt(5)),
       Decoded(JDict(<<Entry(<<"a">>, JInt(5))>>)),
       Decoded(JDict(<<Entry(<<"a">>, JStr(<<"A", "a">>))>>)),
       Decoded(JDict(<<Entry(<<"a">>, JDict(<<Entry(<<"x">>, JInt(1)),
                                              Entry(<<"y">>, JInt(2))>>))>>)) >>

ImageFile(w, h) == [exists |-> TRUE, decodes |-> TRUE, w |-> w, h |-> h]
MissingFile == [exists |-> FALSE, decodes |-> FALSE, w |-> 0, h |-> 0]
BrokenFile == [exists |-> TRUE, decodes |-> FALSE, w |-> 0, h |-> 0]

PhotoSides == {60, 100}
Photos == {ImageFile(w, h) : w \in PhotoSides, h \in PhotoSides}
ImageFiles == Photos \cup {ImageFile(4, 4), MissingFile, BrokenFile}

\* the bounding rectangles <<x, y, cw, ch>> a contour of a w x h image can have,
\* with corners on a grid that holds the 10% and 90% marks
GridX(w) == {0, w \div 10, w \div 2, w}
GridY(h) == {0, 1, h \div 10, h}
Rects(w, h) ==
    {<<x1, y1, x2 - x1, y2 - y1>> :
        <<x1, x2, y1, y2>> \in
            {q \in GridX(w) \X GridX(w) \X GridY(h) \X GridY(h) : q[1] < q[2] /\ q[3] < q[4]}}

\* the lists of at most k of them
ContourLists(w, h, k) == UNION {[1..n -> Rects(w, h)] : n \in 0..k}

(***************************************************************************)
(* Specifications                                                          *)
(***************************************************************************)
DefaultTimeLimit == 30
DefaultPath == <<"i", "m", "g", "/", "a", "_", "1", ".", "j", "p", "g">>
NoDictFile == DictFiles[1]
max_levels == Len(sigma_values)

\* The whole session: every operation, on a few sessions.
SessionTexts == {t \in Texts : Len(t) < MaxLen}
SessionContours(file) ==
    {<<>>, <<<<file.w \div 10, 0, (file.w \div 2) - (file.w \div 10), file.h>>>>}

Next ==
    \/ /\ pc = "new"
       /\ \E path \in {DefaultPath, <<"i", "m", "g", "/", " ", "A", ".", "j", "p", "g">>},
             m \in Modes, d \in {1, 4, 7},
             file \in {ImageFile(100, 100), MissingFile} :
             \E contours \in SessionContours(file) :
                Construct(path, m, MaxTime, DictFiles[d], file, contours)
    \/ \E answer \in SessionTexts : SetAnswer(answer)
    \/ \E elapsed \in ElapsedTimes : GetProcessedImage(elapsed)
    \/ \E guess \in SessionTexts : CheckAnswer(guess)
    \/ \E elapsed \in ElapsedTimes : CalculateScore(elapsed)
    \/ GetMode
    \/ GetCorrectAnswer

Spec == Init /\ [][Next]_vars

\* Answers: every path, dictionary and text.
NextAnswer ==
    \/ /\ pc = "new"
       /\ \E path \in Paths, d \in 1..Len(DictFiles) :
             Construct(path, "blur", DefaultTimeLimit, DictFiles[d], ImageFile(100, 100), <<>>)
    \/ \E answer \in Texts : SetAnswer(answer)
    \/ \E guess \in Texts : CheckAnswer(guess)
    \/ GetCorrectAnswer

SpecAnswer == Init /\ [][NextAnswer]_vars

\* Scores: every time limit and elapsed time.
NextScore ==
    \/ /\ pc = "new"
       /\ \E limit \in TimeLimits :
             Construct(DefaultPath, "blur", limit, NoDictFile, ImageFile(100, 100), <<>>)
    \/ \E elapsed \in ElapsedTimes : CalculateScore(elapsed)

SpecScore == Init /\ [][NextScore]_vars

\* Reveal: every mode, time limit, elapsed time and level, on a few images.
NextReveal ==
    \/ /\ pc = "new"
       /\ \E m \in Modes, limit \in TimeLimits, file \in ImageFiles :
             Construct(DefaultPath, m, limit, NoDictFile, file, <<>>)
    \/ \E elapsed \in ElapsedTimes : GetProcessedImage(elapsed)
    \/ \E level \in Levels : ApplyBlur(level, max_levels)
    \/ \E level \in Levels : ApplyZoom(level, max_levels)
    \/ \E level \in Levels : ApplyHybrid(level, max_levels)

SpecReveal == Init /\ [][NextReveal]_vars

\* Crop: every photo and every list of at most MaxContours contours on its grid.
NextCrop ==
    /\ pc = "new"
    /\ \E file \in Photos :
          \E contours \in ContourLists(file.w, file.h, MaxContours) :
             Construct(DefaultPath, "blur", DefaultTimeLimit, NoDictFile, file, contours)

SpecCrop == Init /\ [][NextCrop]_vars

(***************************************************************************)
(* Properties: scores (SpecScore)                                          *)
(***************************************************************************)
ScoreReturned == pc = "active" /\ ret.op = "calculate_score"

\* C2: for every elapsed value and every time_limit, calculate_score returns a value
\* in [0, 100], and exactly 0 whenever time_limit <= 0 or elapsed >= time_limit.
C2_ScoreWithinRange ==
    ScoreReturned =>
        /\ RLe(RInt(0), ret.val)
        /\ RLe(ret.val, RInt(100))
        /\ (time_limit <= 0 \/ ret.arg >= time_limit) => ret.val = RInt(0)

\* for a positive limit: 100 at elapsed 0, 0 at elapsed = limit, and
\* score * limit = 100 * (limit - elapsed) in between
ScoreShape ==
    (ScoreReturned /\ time_limit > 0 /\ ret.arg >= 0 /\ ret.arg <= time_limit) =>
        /\ ret.arg = 0 => ret.val = RInt(100)
        /\ ret.arg = time_limit => ret.val = RInt(0)
        /\ ret.val.n * time_limit = 100 * (time_limit - ret.arg) * ret.val.d

\* a later call with a larger elapsed time never scores more
ScoreStep ==
    (ScoreReturned /\ ret'.op = "calculate_score" /\ time_limit > 0
        /\ ret.arg <= ret'.arg) => RLe(ret'.val, ret.val)

\* C5: for a fixed time_limit > 0, calculate_score is non-increasing in elapsed over all
\* elapsed values, is 100 at elapsed 0, 0 at elapsed = time_limit, and
\* 100 * (1 - elapsed/time_limit) between the two.
C5_ScoreMonotone == []ScoreShape /\ [][ScoreStep]_vars

C5_Witness ==
    /\ ScoreReturned
    /\ time_limit > 0 /\ ret.arg > 0 /\ ret.arg < time_limit
    /\ RLt(RInt(0), ret.val) /\ RLt(ret.val, RInt(100))

(***************************************************************************)
(* Properties: reveal (SpecReveal)                                         *)
(***************************************************************************)
\* C1: with a loaded image, get_processed_image returns an image for every elapsed
\* value, time_limit and mode, and never ends in an error.
C1_ViewNeverFails ==
    (pc = "active" /\ ret.op = "get_processed_image") =>
        (ret.err = "" /\ ~ret.val.isNone)

\* the sigma of the last blur applied to an image, 0 when none was
last_sigma(image) ==
    IF image.blur = <<>> THEN 0 ELSE image.blur[Len(image.blur)].sigma

\* C6: in Hybrid, when the zoom component shows the whole image the blur component has
\* zero strength, so the result is the original image; and the blur of Hybrid is never
\* stronger than the blur plain Blur applies at the same step.
C6_HybridBlurClearsFirst ==
    (pc = "active" /\ ret.op = "apply_hybrid" /\ ret.err = "") =>
        /\ (ret.val.rw = original_image.w /\ ret.val.rh = original_image.h)
              => ret.val = original_image
        /\ last_sigma(ret.val)
              <= last_sigma(apply_blur(original_image, ret.arg, max_levels).val)

(***************************************************************************)
(* Properties: answers (SpecAnswer)                                        *)
(***************************************************************************)
normalized(t) == lower(strip(t))

\* a map from keys to lists of scalars
well_formed(syn) ==
    /\ syn.t = "dict"
    /\ \A i \in 1..Len(syn.items) :
          /\ syn.items[i].v.t = "list"
          /\ \A j \in 1..Len(syn.items[i].v.items) :
                syn.items[i].v.items[j].t \in {"str", "int"}

has_entry(syn, key) == \E i \in 1..Len(syn.items) : syn.items[i].k = key
entry_of(syn, key) == syn.items[CHOOSE i \in 1..Len(syn.items) : syn.items[i].k = key].v

\* the normalized synonyms a well-formed map lists for key
listed_for(syn, key) ==
    IF has_entry(syn, key)
    THEN {normalized(py_str(entry_of(syn, key).items[j])) :
             j \in 1..Len(entry_of(syn, key).items)}
    ELSE {}

AnswerChecked == pc = "active" /\ ret.op = "check_answer"

\* C3: check_answer judges a guess correct iff the lowercased, trimmed guess is a member
\* of {key} united with the lowercased, trimmed synonyms listed for the key; a guess
\* that merely contains the key is rejected, and an empty guess or a key without
\* synonyms gives a verdict, not an error.
C3_ExactMembership ==
    (AnswerChecked /\ well_formed(synonyms)) =>
        /\ ret.err = ""
        /\ ret.val.is_correct <=>
              normalized(ret.arg) \in
                  ({correct_answer_key} \cup listed_for(synonyms, correct_answer_key))
        /\ (listed_for(synonyms, correct_answer_key) = {} /\ ret.val.is_correct)
              => normalized(ret.arg) = correct_answer_key

C3_Witness ==
    /\ AnswerChecked /\ well_formed(synonyms) /\ ret.err = ""
    /\ ret.val.is_correct
    /\ normalized(ret.arg) # ret.arg
    /\ normalized(ret.arg) # correct_answer_key

\* C4: in every state reached by construction and set_answer calls the answer key
\* equals its own lowercased, trimmed form, so a guess of the text just passed to
\* set_answer is judged correct.
C4_KeyNormalized ==
    pc = "active" => correct_answer_key = normalized(correct_answer_key)

\* the dictionary is absent or undecodable (self.synonyms is {}), is not a map, or
\* maps the key to something that is not a list
degraded(syn, key) ==
    \/ syn = EmptyDict
    \/ syn.t # "dict"
    \/ has_entry(syn, key) /\ entry_of(syn, key).t # "list"

\* C7: with an absent, undecodable or malformed dictionary the session behaves as if
\* the key had no synonyms: check_answer raises nothing, accepts exactly the key and
\* shows the key.
C7_MalformedDictionaryDegrades ==
    (AnswerChecked /\ degraded(synonyms, correct_answer_key)) =>
        /\ ret.err = ""
        /\ ret.val.is_correct <=> (normalized(ret.arg) = correct_answer_key)
        /\ ret.val.display_answer = JStr(correct_answer_key)

(***************************************************************************)
(* Properties: crop (SpecCrop)                                             *)
(***************************************************************************)
union_w == LET lo == CHOOSE v \in {r[1] : r \in valid_rects} : \A r \in valid_rects : v <= r[1]
               hi == CHOOSE v \in {r[3] : r \in valid_rects} : \A r \in valid_rects : v >= r[3]
           IN  hi - lo
union_h == LET lo == CHOOSE v \in {r[2] : r \in valid_rects} : \A r \in valid_rects : v <= r[2]
               hi == CHOOSE v \in {r[4] : r \in valid_rects} : \A r \in valid_rects : v >= r[4]
           IN  hi - lo

\* the union of the valid rectangles covers at least 90% of both sides of the loaded image
covers_90 ==
    /\ pc = "active" /\ ret.op = "__init__" /\ valid_rects # {}
    /\ union_w * 10 >= ret.arg.w * 9
    /\ union_h * 10 >= ret.arg.h * 9

\* C8: crop_to_main_subject leaves the image unchanged whenever the union of the valid
\* rectangles covers at least 90% of the width and of the height, exactly 90% included.
C8_BackgroundLeftUnchanged == covers_90 => original_image = ret.arg

\* exactly 90% of the width: the test of line 136 lets it through, and the padded
\* rectangle is the whole image
C8_Witness ==
    /\ covers_90
    /\ union_w * 10 = ret.arg.w * 9
    /\ crop_rect # <<>>
    /\ original_image = ret.arg

\* the part of image inside rect = <<x1, y1, x2, y2>>
sub_image(image, rect) ==
    [image EXCEPT !.w = rect[3] - rect[1], !.h = rect[4] - rect[2],
                  !.rx = @ + rect[1], !.ry = @ + rect[2],
                  !.rw = rect[3] - rect[1], !.rh = rect[4] - rect[2]]

\* C10: the padded rectangle satisfies 0 <= x1 <= x2 <= width and 0 <= y1 <= y2 <= height;
\* the session image is the loaded image or exactly that sub-rectangle, then more than
\* 50 pixels high and wide; the call never fails and never leaves an empty image.
C10_CropWithinImage ==
    (pc = "active" /\ ret.op = "__init__") =>
        /\ ret.err = ""
        /\ crop_rect # <<>> =>
              /\ 0 <= crop_rect[1] /\ crop_rect[1] <= crop_rect[3]
              /\ crop_rect[3] <= ret.arg.w
              /\ 0 <= crop_rect[2] /\ crop_rect[2] <= crop_rect[4]
              /\ crop_rect[4] <= ret.arg.h
        /\ \/ original_image = ret.arg
           \/ /\ crop_rect # <<>>
              /\ original_image = sub_image(ret.arg, crop_rect)
              /\ original_image.w > MinCropSide
              /\ original_image.h > MinCropSide
        /\ original_image.w > 0 /\ original_image.h > 0

C10_Witness ==
    /\ pc = "active" /\ ret.op = "__init__"
    /\ crop_rect # <<>>
    /\ original_image # ret.arg
    /\ crop_rect[1] = 0 /\ crop_rect[3] < ret.arg.w

(***************************************************************************)
(* Properties: the session's state (Spec)                                  *)
(***************************************************************************)
\* a step of a constructed session keeps the image, mode, time limit and synonyms, and
\* keeps the key unless the step is set_answer
FrameStep ==
    pc = "active" =>
        /\ original_image' = original_image
        /\ mode' = mode
        /\ time_limit' = time_limit
        /\ synonyms' = synonyms
        /\ image_path' = image_path
        /\ correct_answer_key' # correct_answer_key => ret'.op = "set_answer"

\* C9: no get_processed_image, check_answer, calculate_score, get_mode or
\* get_correct_answer call changes the key, synonyms, mode, time limit or stored image;
\* only set_answer changes the key, and nothing changes the image after construction.
C9_QueriesKeepState == [][FrameStep]_vars

\* a check_answer has run on a session whose key is not trimmed
C9_Witness ==
    /\ AnswerChecked /\ ret.err = ""
    /\ strip(correct_answer_key) # correct_answer_key
    /\ original_image # NoImage

====
